---- MODULE Spec2Model ----
(***************************************************************************)
(* FastLookup (src/fast-lookup.js): a cascading lookup cache in front of a *)
(* slow index.  Tiers: hot LRU cache, negative set, positive sieve, bloom  *)
(* filter, then the index fetch.                                           *)
(*                                                                         *)
(* JavaScript runs each handler to its first await without interruption.   *)
(* get() awaits only fetchFromIndex(); fetchFromIndex() awaits only its    *)
(* timer and reads the index after it.  The continuation of get() is the   *)
(* only waiter of the fetch promise, so the index read and the rest of     *)
(* get() run in one microtask drain: one step of the model, ResumeGet.     *)
(* add(), preload() and clear() contain no await before their last         *)
(* statement and are single steps.                                         *)
(*                                                                         *)
(* Not modelled: stats.totalTime and the console output of preload (wall   *)
(* clock only), the creation timestamp of a mock record.                   *)
(***************************************************************************)
EXTENDS Integers, Sequences, FiniteSets, TLC

\* ---- bounds of the model ----
NumKeys == 2
NumData == 2
CacheSize == 1
BloomSize == 4
NumHashes == 2
MaxLookups == 3
MaxInFlight == 2
MaxItems == 3
MaxPreload == 2

\* bounds of the LRU checked on its own
MaxCapacity == 2
NumLRUKeys == 3
MaxOps == 4

\* bounds of the CTCAnalyzer checked on its own
NumFuncHashes == 2
HashStride == 500
MaxAnalyzed == 3

\* bounds of the programs given to the SimpleSemanticHasher
MaxParams == 2
NumLiterals == 2

\* bound of the codes given to S0FractalIRL.register
NumCodes == 3

\* bounds of the WASMExecutor: module hashes, _compile runs started, execute calls
NumModules == 2
MaxCompiles == 3
MaxExecutes == 2

\* bounds of the WASMWorkerPool: workers of the pool, requests given to it
MaxPoolSize == 2
NumRequests == 4

\* clear() rebuilds the hot cache with this capacity
ClearCacheSize == 10000

\* new WASMWorkerPool() has this many workers
DefaultPoolSize == 4

ModuleHashes == 1..NumModules
Requests == 1..NumRequests

Keys == 1..NumKeys

\* the absent value (null) and the records
Null == [kind |-> "null", v |-> 0]
Data == [kind : {"data"}, v : 1..NumData]
MockData(hash) == [kind |-> "mock", v |-> hash]

Paths == {"sieve", "bloom"}

VARIABLES
  hotCache,    \* LRU: [maxSize, cache], cache in Map insertion order
  bloom,       \* BloomFilter: [bits, itemCount]
  sieve,       \* Set of keys
  negative,    \* Set of keys
  index,       \* Map key -> record, Null where the Map has no entry
  stats,       \* the counters of this.stats
  pending,     \* gets suspended at `await this.fetchFromIndex(hash)`
  fetchCalls,  \* history: number of fetchFromIndex calls started
  last,        \* history: the call or continuation that ran last
  prev,        \* history: the call or continuation that ran before it
  lruInst,     \* an LRU used on its own (SpecLRU)
  lruTrace,    \* history: the get and set calls made on lruInst
  ctc,         \* CTCAnalyzer: [cache, stats]
  ctcCall,     \* history: the last call of CTCAnalyzer.analyze
  hashCall,    \* SimpleSemanticHasher: the program given to hash and what it returned
  executor,    \* WASMExecutor: [aotCache, compiling, stats]
  compileRuns, \* the _compile runs started, the promise withTimeout made of each
  wasmCall,    \* history: the last call or settlement on the executor
  pool,        \* WASMWorkerPool: [size, busy, queue, running]
  requests     \* history: what became of each request given to the pool

vars == <<hotCache, bloom, sieve, negative, index, stats, pending, fetchCalls, last, prev,
          lruInst, lruTrace, ctc, ctcCall, hashCall,
          executor, compileRuns, wasmCall, pool, requests>>

fastLookupVars == <<hotCache, bloom, sieve, negative, index, stats, pending, fetchCalls,
                    last, prev>>

\* ---- LRU ----
LRU_has(lru, key) == \E i \in 1..Len(lru.cache) : lru.cache[i].key = key

LRU_peek(lru, key) ==
  LET i == CHOOSE j \in 1..Len(lru.cache) : lru.cache[j].key = key
  IN  lru.cache[i].value

LRU_delete(cache, key) == SelectSeq(cache, LAMBDA e : e.key # key)

LRU_get_noTouch(lru, key) ==
  IF ~LRU_has(lru, key)
  THEN [ret |-> Null, lru |-> lru]
  ELSE [ret |-> LRU_peek(lru, key), lru |-> lru]

LRU_get(lru, key) ==
  IF ~LRU_has(lru, key)
  THEN [ret |-> Null, lru |-> lru]
  ELSE LET value == LRU_peek(lru, key)
       IN  [ret |-> value,
            lru |-> [lru EXCEPT !.cache =
                       Append(LRU_delete(lru.cache, key), [key |-> key, value |-> value])]]

LRU_set_evictOnUpdate(lru, key, value) ==
  IF Len(lru.cache) >= lru.maxSize /\ Len(lru.cache) > 0
  THEN [lru EXCEPT !.cache = Append(LRU_delete(Tail(lru.cache), key),
                                    [key |-> key, value |-> value])]
  ELSE [lru EXCEPT !.cache = Append(LRU_delete(lru.cache, key),
                                    [key |-> key, value |-> value])]

LRU_set_keepOld(lru, key, value) ==
  IF LRU_has(lru, key)
  THEN lru
  ELSE IF Len(lru.cache) >= lru.maxSize /\ Len(lru.cache) > 0
       THEN [lru EXCEPT !.cache = Append(Tail(lru.cache), [key |-> key, value |-> value])]
       ELSE [lru EXCEPT !.cache = Append(lru.cache, [key |-> key, value |-> value])]

LRU_set_evictNewest(lru, key, value) ==
  IF LRU_has(lru, key)
  THEN [lru EXCEPT !.cache = Append(LRU_delete(lru.cache, key), [key |-> key, value |-> value])]
  ELSE IF Len(lru.cache) >= lru.maxSize /\ Len(lru.cache) > 0
       THEN [lru EXCEPT !.cache =
               Append(SubSeq(lru.cache, 1, Len(lru.cache) - 1), [key |-> key, value |-> value])]
       ELSE [lru EXCEPT !.cache = Append(lru.cache, [key |-> key, value |-> value])]

LRU_set(lru, key, value) ==
  IF LRU_has(lru, key)
  THEN [lru EXCEPT !.cache = Append(LRU_delete(lru.cache, key), [key |-> key, value |-> value])]
  ELSE IF Len(lru.cache) >= lru.maxSize /\ Len(lru.cache) > 0
       THEN [lru EXCEPT !.cache = Append(Tail(lru.cache), [key |-> key, value |-> value])]
       ELSE [lru EXCEPT !.cache = Append(lru.cache, [key |-> key, value |-> value])]

\* ---- BloomFilter ----
\* the first 32 bits of sha256(item + seed), abstracted to a fixed function
Digest(item, seed) == item + 2 * seed + 3 * item * seed

_hash(item, seed) == Digest(item, seed) % BloomSize

Bloom_indexes(item) == { _hash(item, i) : i \in 0..(NumHashes - 1) }

Bloom_add_offByOne(b, item) ==
  [bits |-> b.bits \cup { _hash(item, i) : i \in 0..(NumHashes - 2) },
   itemCount |-> b.itemCount + 1]

Bloom_add(b, item) ==
  [bits |-> b.bits \cup Bloom_indexes(item), itemCount |-> b.itemCount + 1]

mightContain_any(b, item) == \E i \in 0..(NumHashes - 1) : _hash(item, i) \in b.bits

mightContain(b, item) == \A i \in 0..(NumHashes - 1) : _hash(item, i) \in b.bits

\* ---- FastLookup ----
NoCall == [op |-> "new", key |-> 0, path |-> "none", done |-> TRUE, result |-> Null, fetches |-> 0]

FastLookupNew ==
  /\ hotCache = [maxSize |-> CacheSize, cache |-> <<>>]
  /\ bloom = [bits |-> {}, itemCount |-> 0]
  /\ sieve = {}
  /\ negative = {}
  /\ index = [k \in Keys |-> Null]
  /\ stats = [lookups |-> 0, hotHits |-> 0, negativeHits |-> 0, sieveHits |-> 0,
              bloomHits |-> 0, fetches |-> 0, notFound |-> 0]
  /\ pending = [k \in Keys |-> [p \in Paths |-> 0]]
  /\ fetchCalls = 0
  /\ last = NoCall
  /\ prev = NoCall

\* ---- CTCAnalyzer and SimpleSemanticHasher after construction ----
NoResult == [type |-> "none"]

CTCAnalyzerNew ==
  [cache |-> [h \in {} |-> NoResult],
   stats |-> [analyzed |-> 0, timeouts |-> 0, loops |-> 0, fixed |-> 0, bounded |-> 0]]

NoAnalysis == [funcHash |-> 0, result |-> NoResult, steps |-> 0, cached |-> FALSE]

NoProgram == [type |-> "none"]

analysisVars == <<ctc, ctcCall, hashCall>>

\* ---- WASMExecutor and WASMWorkerPool after construction ----
\* compiling maps a hash to the run whose promise the Map holds, 0 where the
\* Map has no entry.  stats.misses is declared and never written.
WASMExecutorNew ==
  [aotCache |-> {},
   compiling |-> [h \in ModuleHashes |-> 0],
   stats |-> [hits |-> 0, misses |-> 0, timeouts |-> 0]]

NoWasmCall == [op |-> "new", hash |-> 0, run |-> 0]

\* running[w] is the request worker w executes, 0 while it is idle
WASMWorkerPoolNew(size) ==
  [size |-> size,
   busy |-> {},
   queue |-> <<>>,
   running |-> [w \in 1..size |-> 0]]

executorVars == <<executor, compileRuns, wasmCall>>
poolVars == <<pool, requests>>
wasmVars == <<executor, compileRuns, wasmCall, pool, requests>>

ExecutorIdle ==
  /\ executor = WASMExecutorNew
  /\ compileRuns = <<>>
  /\ wasmCall = NoWasmCall

PoolIdle ==
  /\ pool = WASMWorkerPoolNew(DefaultPoolSize)
  /\ requests = [r \in Requests |-> "new"]

WasmIdle == ExecutorIdle /\ PoolIdle

AnalysisIdle ==
  /\ ctc = CTCAnalyzerNew
  /\ ctcCall = NoAnalysis
  /\ hashCall = [code |-> NoProgram, result |-> NoResult]

\* a FastLookup; the LRU on its own is not used
Init ==
  /\ FastLookupNew
  /\ lruInst = [maxSize |-> CacheSize, cache |-> <<>>]
  /\ lruTrace = <<>>
  /\ AnalysisIdle
  /\ WasmIdle

InFlight == LET Sum[k \in 0..NumKeys] ==
                  IF k = 0 THEN 0 ELSE Sum[k - 1] + pending[k]["sieve"] + pending[k]["bloom"]
            IN  Sum[NumKeys]

fetchFromIndex_noIndex(hash) == {Null, MockData(hash)}

\* what the fetch returns once its timer has fired
fetchFromIndex(hash) ==
  IF index[hash] # Null THEN {index[hash]} ELSE {Null, MockData(hash)}

\* op: "get" is a call of get, "resume" its continuation after the fetch;
\* fetches: the fetchFromIndex calls the step started
Call(op, key, path, done, result, fetches) ==
  [op |-> op, key |-> key, path |-> path, done |-> done, result |-> result,
   fetches |-> fetches]

Ran(call) == last' = call /\ prev' = last /\ UNCHANGED <<lruInst, lruTrace, analysisVars, wasmVars>>

get_markBeforeFetch(hash) ==
  /\ stats.lookups < MaxLookups
  /\ LET counted == [stats EXCEPT !.lookups = @ + 1] IN
     IF LRU_has(hotCache, hash) THEN
       /\ stats' = [counted EXCEPT !.hotHits = @ + 1]
       /\ hotCache' = LRU_get(hotCache, hash).lru
       /\ Ran(Call("get", hash, "hot", TRUE, LRU_get(hotCache, hash).ret, 0))
       /\ UNCHANGED <<bloom, sieve, negative, index, pending, fetchCalls>>
     ELSE IF hash \in negative THEN
       /\ stats' = [counted EXCEPT !.negativeHits = @ + 1]
       /\ Ran(Call("get", hash, "negative", TRUE, Null, 0))
       /\ UNCHANGED <<hotCache, bloom, sieve, negative, index, pending, fetchCalls>>
     ELSE IF hash \in sieve THEN
       /\ InFlight < MaxInFlight
       /\ stats' = [counted EXCEPT !.sieveHits = @ + 1]
       /\ pending' = [pending EXCEPT ![hash]["sieve"] = @ + 1]
       /\ fetchCalls' = fetchCalls + 1
       /\ Ran(Call("get", hash, "sieve", FALSE, Null, 1))
       /\ UNCHANGED <<hotCache, bloom, sieve, negative, index>>
     ELSE IF ~mightContain(bloom, hash) THEN
       /\ stats' = [counted EXCEPT !.notFound = @ + 1]
       /\ negative' = negative \cup {hash}
       /\ Ran(Call("get", hash, "bloomNegative", TRUE, Null, 0))
       /\ UNCHANGED <<hotCache, bloom, sieve, index, pending, fetchCalls>>
     ELSE
       /\ InFlight < MaxInFlight
       /\ stats' = [counted EXCEPT !.bloomHits = @ + 1, !.fetches = @ + 1]
       /\ pending' = [pending EXCEPT ![hash]["bloom"] = @ + 1]
       /\ fetchCalls' = fetchCalls + 1
       /\ sieve' = sieve \cup {hash}
       /\ Ran(Call("get", hash, "bloom", FALSE, Null, 1))
       /\ UNCHANGED <<hotCache, bloom, negative, index>>

get_coalesce(hash) ==
  /\ stats.lookups < MaxLookups
  /\ LET counted == [stats EXCEPT !.lookups = @ + 1] IN
     IF LRU_has(hotCache, hash) THEN
       /\ stats' = [counted EXCEPT !.hotHits = @ + 1]
       /\ hotCache' = LRU_get(hotCache, hash).lru
       /\ Ran(Call("get", hash, "hot", TRUE, LRU_get(hotCache, hash).ret, 0))
       /\ UNCHANGED <<bloom, sieve, negative, index, pending, fetchCalls>>
     ELSE IF hash \in negative THEN
       /\ stats' = [counted EXCEPT !.negativeHits = @ + 1]
       /\ Ran(Call("get", hash, "negative", TRUE, Null, 0))
       /\ UNCHANGED <<hotCache, bloom, sieve, negative, index, pending, fetchCalls>>
     ELSE IF hash \in sieve THEN
       /\ InFlight < MaxInFlight
       /\ stats' = [counted EXCEPT !.sieveHits = @ + 1]
       /\ pending' = [pending EXCEPT ![hash]["sieve"] = @ + 1]
       /\ fetchCalls' = fetchCalls + 1
       /\ Ran(Call("get", hash, "sieve", FALSE, Null, 1))
       /\ UNCHANGED <<hotCache, bloom, sieve, negative, index>>
     ELSE IF ~mightContain(bloom, hash) THEN
       /\ stats' = [counted EXCEPT !.notFound = @ + 1]
       /\ negative' = negative \cup {hash}
       /\ Ran(Call("get", hash, "bloomNegative", TRUE, Null, 0))
       /\ UNCHANGED <<hotCache, bloom, sieve, index, pending, fetchCalls>>
     ELSE IF pending[hash]["bloom"] > 0 THEN
       /\ stats' = [counted EXCEPT !.bloomHits = @ + 1]
       /\ Ran(Call("get", hash, "bloom", FALSE, Null, 0))
       /\ UNCHANGED <<hotCache, bloom, sieve, negative, index, pending, fetchCalls>>
     ELSE
       /\ InFlight < MaxInFlight
       /\ stats' = [counted EXCEPT !.bloomHits = @ + 1, !.fetches = @ + 1]
       /\ pending' = [pending EXCEPT ![hash]["bloom"] = @ + 1]
       /\ fetchCalls' = fetchCalls + 1
       /\ Ran(Call("get", hash, "bloom", FALSE, Null, 1))
       /\ UNCHANGED <<hotCache, bloom, sieve, negative, index>>

\* get(hash) up to its return or to the await of the fetch
get(hash) ==
  /\ stats.lookups < MaxLookups
  /\ LET counted == [stats EXCEPT !.lookups = @ + 1] IN
     IF LRU_has(hotCache, hash) THEN
       /\ stats' = [counted EXCEPT !.hotHits = @ + 1]
       /\ hotCache' = LRU_get(hotCache, hash).lru
       /\ Ran(Call("get", hash, "hot", TRUE, LRU_get(hotCache, hash).ret, 0))
       /\ UNCHANGED <<bloom, sieve, negative, index, pending, fetchCalls>>
     ELSE IF hash \in negative THEN
       /\ stats' = [counted EXCEPT !.negativeHits = @ + 1]
       /\ Ran(Call("get", hash, "negative", TRUE, Null, 0))
       /\ UNCHANGED <<hotCache, bloom, sieve, negative, index, pending, fetchCalls>>
     ELSE IF hash \in sieve THEN
       /\ InFlight < MaxInFlight
       /\ stats' = [counted EXCEPT !.sieveHits = @ + 1]
       /\ pending' = [pending EXCEPT ![hash]["sieve"] = @ + 1]
       /\ fetchCalls' = fetchCalls + 1
       /\ Ran(Call("get", hash, "sieve", FALSE, Null, 1))
       /\ UNCHANGED <<hotCache, bloom, sieve, negative, index>>
     ELSE IF ~mightContain(bloom, hash) THEN
       /\ stats' = [counted EXCEPT !.notFound = @ + 1]
       /\ negative' = negative \cup {hash}
       /\ Ran(Call("get", hash, "bloomNegative", TRUE, Null, 0))
       /\ UNCHANGED <<hotCache, bloom, sieve, index, pending, fetchCalls>>
     ELSE
       /\ InFlight < MaxInFlight
       /\ stats' = [counted EXCEPT !.bloomHits = @ + 1, !.fetches = @ + 1]
       /\ pending' = [pending EXCEPT ![hash]["bloom"] = @ + 1]
       /\ fetchCalls' = fetchCalls + 1
       /\ Ran(Call("get", hash, "bloom", FALSE, Null, 1))
       /\ UNCHANGED <<hotCache, bloom, sieve, negative, index>>

ResumeSieve_dropOnMiss(hash) ==
  /\ pending[hash]["sieve"] > 0
  /\ \E result \in fetchFromIndex(hash) :
       /\ hotCache' = LRU_set(hotCache, hash, result)
       /\ sieve' = IF result = Null THEN sieve \ {hash} ELSE sieve
       /\ Ran(Call("resume", hash, "sieve", TRUE, result, 0))
  /\ pending' = [pending EXCEPT ![hash]["sieve"] = @ - 1]
  /\ UNCHANGED <<bloom, negative, index, stats, fetchCalls>>

\* the fetch of a get on the sieve path completes and the get returns
ResumeSieve(hash) ==
  /\ pending[hash]["sieve"] > 0
  /\ \E result \in fetchFromIndex(hash) :
       /\ hotCache' = LRU_set(hotCache, hash, result)
       /\ Ran(Call("resume", hash, "sieve", TRUE, result, 0))
  /\ pending' = [pending EXCEPT ![hash]["sieve"] = @ - 1]
  /\ UNCHANGED <<bloom, sieve, negative, index, stats, fetchCalls>>

\* the fetch of a get on the bloom-positive path completes and the get returns
ResumeBloom_noCache(hash) ==
  /\ pending[hash]["bloom"] > 0
  /\ \E result \in fetchFromIndex(hash) :
       /\ IF result # Null
          THEN /\ sieve' = sieve \cup {hash}
               /\ bloom' = Bloom_add(bloom, hash)
               /\ UNCHANGED <<negative, stats, hotCache>>
          ELSE /\ negative' = negative \cup {hash}
               /\ stats' = [stats EXCEPT !.notFound = @ + 1]
               /\ UNCHANGED <<sieve, hotCache, bloom>>
       /\ Ran(Call("resume", hash, "bloom", TRUE, result, 0))
  /\ pending' = [pending EXCEPT ![hash]["bloom"] = @ - 1]
  /\ UNCHANGED <<index, fetchCalls>>

ResumeBloom(hash) ==
  /\ pending[hash]["bloom"] > 0
  /\ \E result \in fetchFromIndex(hash) :
       /\ IF result # Null
          THEN /\ sieve' = sieve \cup {hash}
               /\ hotCache' = LRU_set(hotCache, hash, result)
               /\ bloom' = Bloom_add(bloom, hash)
               /\ UNCHANGED <<negative, stats>>
          ELSE /\ negative' = negative \cup {hash}
               /\ stats' = [stats EXCEPT !.notFound = @ + 1]
               /\ UNCHANGED <<sieve, hotCache, bloom>>
       /\ Ran(Call("resume", hash, "bloom", TRUE, result, 0))
  /\ pending' = [pending EXCEPT ![hash]["bloom"] = @ - 1]
  /\ UNCHANGED <<index, fetchCalls>>

add_tiersOnly(hash, data) ==
  /\ bloom.itemCount < MaxItems
  /\ bloom' = Bloom_add(bloom, hash)
  /\ sieve' = sieve \cup {hash}
  /\ hotCache' = LRU_set(hotCache, hash, data)
  /\ negative' = negative \ {hash}
  /\ Ran(Call("add", hash, "none", TRUE, data, 0))
  /\ UNCHANGED <<index, stats, pending, fetchCalls>>

add_keepNegative(hash, data) ==
  /\ bloom.itemCount < MaxItems
  /\ bloom' = Bloom_add(bloom, hash)
  /\ sieve' = sieve \cup {hash}
  /\ hotCache' = LRU_set(hotCache, hash, data)
  /\ index' = [index EXCEPT ![hash] = data]
  /\ Ran(Call("add", hash, "none", TRUE, data, 0))
  /\ UNCHANGED <<negative, stats, pending, fetchCalls>>

add(hash, data) ==
  /\ bloom.itemCount < MaxItems
  /\ bloom' = Bloom_add(bloom, hash)
  /\ sieve' = sieve \cup {hash}
  /\ hotCache' = LRU_set(hotCache, hash, data)
  /\ negative' = negative \ {hash}
  /\ index' = [index EXCEPT ![hash] = data]
  /\ Ran(Call("add", hash, "none", TRUE, data, 0))
  /\ UNCHANGED <<stats, pending, fetchCalls>>

\* the loop of preload over the first n hashes
RECURSIVE preloadLoop(_, _, _)
preloadLoop(b, hashes, n) ==
  IF n = 0 THEN b ELSE Bloom_add(preloadLoop(b, hashes, n - 1), hashes[n])

\* the 100ms budget ends the loop after any hash but not before the first
PreloadLists == UNION { [1..n -> Keys] : n \in 0..MaxPreload }

preload_markPresent(hashes) ==
  /\ bloom.itemCount + Len(hashes) <= MaxItems
  /\ \E loaded \in (IF Len(hashes) = 0 THEN {0} ELSE 1..Len(hashes)) :
       /\ bloom' = preloadLoop(bloom, hashes, loaded)
       /\ sieve' = sieve \cup { hashes[i] : i \in 1..loaded }
  /\ Ran(Call("preload", 0, "none", TRUE, Null, 0))
  /\ UNCHANGED <<hotCache, negative, index, stats, pending, fetchCalls>>

preload(hashes) ==
  /\ bloom.itemCount + Len(hashes) <= MaxItems
  /\ \E loaded \in (IF Len(hashes) = 0 THEN {0} ELSE 1..Len(hashes)) :
       bloom' = preloadLoop(bloom, hashes, loaded)
  /\ Ran(Call("preload", 0, "none", TRUE, Null, 0))
  /\ UNCHANGED <<hotCache, sieve, negative, index, stats, pending, fetchCalls>>

clear_resetStats ==
  /\ hotCache' = [maxSize |-> ClearCacheSize, cache |-> <<>>]
  /\ sieve' = {}
  /\ negative' = {}
  /\ stats' = [lookups |-> 0, hotHits |-> 0, negativeHits |-> 0, sieveHits |-> 0,
               bloomHits |-> 0, fetches |-> 0, notFound |-> 0]
  /\ Ran(Call("clear", 0, "none", TRUE, Null, 0))
  /\ UNCHANGED <<bloom, index, pending, fetchCalls>>

clear_keepNegative ==
  /\ hotCache' = [maxSize |-> ClearCacheSize, cache |-> <<>>]
  /\ sieve' = {}
  /\ Ran(Call("clear", 0, "none", TRUE, Null, 0))
  /\ UNCHANGED <<negative, bloom, index, stats, pending, fetchCalls>>

clear_resetBloom ==
  /\ hotCache' = [maxSize |-> ClearCacheSize, cache |-> <<>>]
  /\ sieve' = {}
  /\ negative' = {}
  /\ bloom' = [bits |-> {}, itemCount |-> 0]
  /\ Ran(Call("clear", 0, "none", TRUE, Null, 0))
  /\ UNCHANGED <<index, stats, pending, fetchCalls>>

clear ==
  /\ hotCache' = [maxSize |-> ClearCacheSize, cache |-> <<>>]
  /\ sieve' = {}
  /\ negative' = {}
  /\ Ran(Call("clear", 0, "none", TRUE, Null, 0))
  /\ UNCHANGED <<bloom, index, stats, pending, fetchCalls>>

Next ==
  \/ \E hash \in Keys : get(hash)
  \/ \E hash \in Keys : ResumeSieve(hash)
  \/ \E hash \in Keys : ResumeBloom(hash)
  \/ \E hash \in Keys, data \in Data : add(hash, data)
  \/ \E hashes \in PreloadLists : preload(hashes)
  \/ clear

Spec == Init /\ [][Next]_vars

TypeOK ==
  /\ sieve \subseteq Keys
  /\ negative \subseteq Keys
  /\ bloom.bits \subseteq 0..(BloomSize - 1)
  /\ InFlight <= MaxInFlight

\* ---- a store whose fetch can fail ----
\* fetchFromIndex as written always resolves.  With a store that can fail,
\* the promise awaited at line 130 or 145 rejects: the await throws inside
\* the try block, the finally block adds to stats.totalTime and the
\* rejection leaves get; no statement after the await runs.
StoreUnavailable == [kind |-> "error", v |-> 0]

FetchFails_markAbsent(hash, path) ==
  /\ pending[hash][path] > 0
  /\ pending' = [pending EXCEPT ![hash][path] = @ - 1]
  /\ negative' = negative \cup {hash}
  /\ Ran(Call("fail", hash, path, TRUE, StoreUnavailable, 0))
  /\ UNCHANGED <<hotCache, bloom, sieve, index, stats, fetchCalls>>

FetchFails_retry(hash, path) ==
  /\ pending[hash][path] > 0
  /\ fetchCalls' = fetchCalls + 1
  /\ Ran(Call("fail", hash, path, FALSE, Null, 1))
  /\ UNCHANGED <<hotCache, bloom, sieve, negative, index, stats, pending>>

FetchFails(hash, path) ==
  /\ pending[hash][path] > 0
  /\ pending' = [pending EXCEPT ![hash][path] = @ - 1]
  /\ Ran(Call("fail", hash, path, TRUE, StoreUnavailable, 0))
  /\ UNCHANGED <<hotCache, bloom, sieve, negative, index, stats, fetchCalls>>

NextFaulty ==
  \/ Next
  \/ \E hash \in Keys, path \in Paths : FetchFails(hash, path)

SpecFaulty == Init /\ [][NextFaulty]_vars


LRUKeys == 1..NumLRUKeys

LRU_keys(c) == { c.cache[i].key : i \in 1..Len(c.cache) }

InitLRU ==
  /\ FastLookupNew
  /\ \E maxSize \in 1..MaxCapacity : lruInst = [maxSize |-> maxSize, cache |-> <<>>]
  /\ lruTrace = <<>>
  /\ AnalysisIdle
  /\ WasmIdle

\* hit: the key was cached before the call; full: the cache was at capacity
\* before the call; evicted: the keys the call removed
LRUCall(op, key, ret, after) ==
  [op |-> op, key |-> key, ret |-> ret,
   hit |-> LRU_has(lruInst, key),
   full |-> Len(lruInst.cache) >= lruInst.maxSize,
   evicted |-> LRU_keys(lruInst) \ LRU_keys(after)]

lruGet(key) ==
  /\ Len(lruTrace) < MaxOps
  /\ lruInst' = LRU_get(lruInst, key).lru
  /\ lruTrace' = Append(lruTrace,
                   LRUCall("get", key, LRU_get(lruInst, key).ret, LRU_get(lruInst, key).lru))
  /\ UNCHANGED <<fastLookupVars, analysisVars, wasmVars>>

lruSet(key, value) ==
  /\ Len(lruTrace) < MaxOps
  /\ lruInst' = LRU_set(lruInst, key, value)
  /\ lruTrace' = Append(lruTrace, LRUCall("set", key, value, LRU_set(lruInst, key, value)))
  /\ UNCHANGED <<fastLookupVars, analysisVars, wasmVars>>

NextLRU ==
  \/ \E key \in LRUKeys : lruGet(key)
  \/ \E key \in LRUKeys, value \in Data : lruSet(key, value)

SpecLRU == InitLRU /\ [][NextLRU]_vars

\* ---- CTCAnalyzer (src/ctc-analyzer.js) ----
\* analyze is synchronous: one step.  Not modelled: stats.totalTime and the
\* timeUsed field of a result (wall clock only).
CTC_MAX_ITERATIONS == 5

\* A function hash is represented by the number its first four characters
\* parse to as hexadecimal digits; the sampled hashes are the multiples of
\* HashStride.
FuncHashes == { k * HashStride : k \in 0..NumFuncHashes }

\* parseInt(funcHash.slice(0, 4), 16) || 1
hashNum(funcHash) == IF funcHash = 0 THEN 1 ELSE funcHash

step(state, funcHash) == (state * 31 + hashNum(funcHash)) % 1000

\* the first 8 hex digits of the sha256 of String(state): the 1000 states
\* 0..999 have 1000 different prefixes, so the digest is kept as a tagged
\* copy of what was hashed
hashState(state) == [sha256 |-> state]

\* the for loop of analyze from iteration i on; expiry is the first
\* iteration at whose start performance.now() has passed the deadline;
\* steps counts the calls of step
RECURSIVE analyzeLoop(_, _, _, _, _, _)
analyzeLoop(i, state, seen, funcHash, expiry, steps) ==
  IF i >= CTC_MAX_ITERATIONS
  THEN [result |-> [type |-> "bounded", iterations |-> CTC_MAX_ITERATIONS], steps |-> steps]
  ELSE IF i >= expiry
  THEN [result |-> [type |-> "timeout", iterations |-> i], steps |-> steps]
  ELSE IF hashState(state) \in DOMAIN seen
  THEN [result |-> [type |-> "loop", period |-> i - seen[hashState(state)],
                    iterations |-> i, loopStart |-> seen[hashState(state)]],
        steps |-> steps]
  ELSE LET nextState == step(state, funcHash)
           seenNow == [h \in DOMAIN seen \cup {hashState(state)} |->
                         IF h = hashState(state) THEN i ELSE seen[h]]
       IN  IF nextState = state
           THEN [result |-> [type |-> "fixed", iterations |-> i + 1, fixedValue |-> state],
                 steps |-> steps + 1]
           ELSE analyzeLoop(i + 1, nextState, seenNow, funcHash, expiry, steps + 1)

analyzeRun_extraStep(funcHash, expiry) ==
  analyzeLoop(-1, 0, [h \in {} |-> 0], funcHash, expiry, 0)

\* analyze after the cache miss: state = 0, seen empty, i = 0
analyzeRun(funcHash, expiry) ==
  analyzeLoop(0, 0, [h \in {} |-> 0], funcHash, expiry, 0)

Counted(statsNow, type) ==
  CASE type = "timeout" -> [statsNow EXCEPT !.timeouts = @ + 1]
    [] type = "loop"    -> [statsNow EXCEPT !.loops = @ + 1]
    [] type = "fixed"   -> [statsNow EXCEPT !.fixed = @ + 1]
    [] type = "bounded" -> [statsNow EXCEPT !.bounded = @ + 1]

\* every way analyze(funcHash) can run on the analyzer c: the analyzer it
\* leaves and what it returns
analyzeOutcomes(c, funcHash) ==
  LET counted == [c.stats EXCEPT !.analyzed = @ + 1]
  IN  IF funcHash \in DOMAIN c.cache
      THEN { [ctc |-> [c EXCEPT !.stats = counted],
              call |-> [funcHash |-> funcHash, result |-> c.cache[funcHash],
                        steps |-> 0, cached |-> TRUE]] }
      ELSE { LET run == analyzeRun(funcHash, expiry)
             IN  [ctc |-> [cache |-> [h \in DOMAIN c.cache \cup {funcHash} |->
                                        IF h = funcHash THEN run.result ELSE c.cache[h]],
                           stats |-> Counted(counted, run.result.type)],
                  call |-> [funcHash |-> funcHash, result |-> run.result,
                            steps |-> run.steps, cached |-> FALSE]]
             : expiry \in 0..CTC_MAX_ITERATIONS }

analyze(funcHash) ==
  /\ ctc.stats.analyzed < MaxAnalyzed
  /\ \E o \in analyzeOutcomes(ctc, funcHash) :
       /\ ctc' = o.ctc
       /\ ctcCall' = o.call
  /\ UNCHANGED <<fastLookupVars, lruInst, lruTrace, hashCall, wasmVars>>

clearCache ==
  /\ ctc' = [ctc EXCEPT !.cache = [h \in {} |-> NoResult]]
  /\ ctcCall' = [funcHash |-> 0, result |-> NoResult, steps |-> 0, cached |-> FALSE]
  /\ UNCHANGED <<fastLookupVars, lruInst, lruTrace, hashCall, wasmVars>>

NextCTC ==
  \/ \E funcHash \in FuncHashes : analyze(funcHash)
  \/ clearCache

SpecCTC == Init /\ [][NextCTC]_vars

\* ---- S0FractalIRL (src/ctc-analyzer.js, from line 611) ----
\* The registry owns a FastLookup, a CTCAnalyzer and a SimpleSemanticHasher.
\* register runs generateHash, ctc.analyze and lookup.add without a pause
\* (add contains no await): one step.  Its continuation only increments
\* stats.registered, which equals bloom.itemCount, and returns the hash.
\* execute is lookup.get; when get resolves to null execute throws
\* 'Function not found', otherwise it hands the hash to the WASMExecutor,
\* which never touches the lookup.
Codes == 1..NumCodes

\* semantic, structure and exact segment; two codes share a hash when they
\* are the same text up to white space, or when their digests collide
generateHash(code) == ((code - 1) % NumKeys) + 1

\* the record register stores: identified by its source
Record(code) == [kind |-> "data", v |-> code]

register_keepNegative(code) ==
  LET hash == generateHash(code) IN
  /\ bloom.itemCount < MaxItems
  /\ \E o \in analyzeOutcomes(ctc, hash) :
       /\ ctc' = o.ctc
       /\ ctcCall' = o.call
  /\ bloom' = Bloom_add(bloom, hash)
  /\ sieve' = sieve \cup {hash}
  /\ hotCache' = LRU_set(hotCache, hash, Record(code))
  /\ index' = [index EXCEPT ![hash] = Record(code)]
  /\ last' = Call("register", hash, "none", TRUE, Record(code), 0)
  /\ prev' = last
  /\ UNCHANGED <<negative, stats, pending, fetchCalls, lruInst, lruTrace, hashCall, wasmVars>>

register(code) ==
  LET hash == generateHash(code) IN
  /\ bloom.itemCount < MaxItems
  /\ \E o \in analyzeOutcomes(ctc, hash) :
       /\ ctc' = o.ctc
       /\ ctcCall' = o.call
  /\ bloom' = Bloom_add(bloom, hash)
  /\ sieve' = sieve \cup {hash}
  /\ hotCache' = LRU_set(hotCache, hash, Record(code))
  /\ negative' = negative \ {hash}
  /\ index' = [index EXCEPT ![hash] = Record(code)]
  /\ last' = Call("register", hash, "none", TRUE, Record(code), 0)
  /\ prev' = last
  /\ UNCHANGED <<stats, pending, fetchCalls, lruInst, lruTrace, hashCall, wasmVars>>

\* execute(hash) up to the return of lookup.get or to the await of its fetch
execute(hash) == get(hash)

NextRegistry ==
  \/ \E code \in Codes : register(code)
  \/ \E hash \in Keys : execute(hash)
  \/ \E hash \in Keys : ResumeSieve(hash)
  \/ \E hash \in Keys : ResumeBloom(hash)

SpecRegistry == Init /\ [][NextRegistry]_vars

\* ---- WASMExecutor (src/wasm-canon.js, lines 17-186) ----
\* A run is one call of _compile(hash) together with the promise withTimeout
\* makes of it: compile is the state of the _compile call, race the state of
\* the Promise.race against the timer, executes the number of execute calls
\* that await the race.  The race does not cancel the _compile call: after a
\* timeout the call is still running.
NewRun(hash, executes) ==
  [hash |-> hash, compile |-> "running", race |-> "pending", executes |-> executes]

Running(hash) ==
  { r \in 1..Len(compileRuns) :
      compileRuns[r].hash = hash /\ compileRuns[r].compile = "running" }

Awaiting == LET Sum[r \in 0..Len(compileRuns)] ==
                  IF r = 0 THEN 0 ELSE Sum[r - 1] + compileRuns[r].executes
            IN  Sum[Len(compileRuns)]

ExecuteCalls == executor.stats.hits + executor.stats.timeouts + Awaiting

ExecutorRan(op, hash, run) ==
  /\ wasmCall' = [op |-> op, hash |-> hash, run |-> run]
  /\ UNCHANGED <<fastLookupVars, lruInst, lruTrace, analysisVars, poolVars>>

\* compile(hash) up to its return or its await, called by op; executes is 1
\* when the caller is an execute call that awaits what compile returns
compileCall(op, hash, executes) ==
  IF hash \in executor.aotCache THEN
    /\ UNCHANGED <<executor, compileRuns>>
    /\ ExecutorRan(op, hash, 0)
  ELSE IF executor.compiling[hash] # 0 THEN
    /\ compileRuns' = [compileRuns EXCEPT ![executor.compiling[hash]].executes = @ + executes]
    /\ UNCHANGED executor
    /\ ExecutorRan(op, hash, executor.compiling[hash])
  ELSE
    /\ Len(compileRuns) < MaxCompiles
    /\ compileRuns' = Append(compileRuns, NewRun(hash, executes))
    /\ executor' = [executor EXCEPT !.compiling[hash] = Len(compileRuns) + 1]
    /\ ExecutorRan(op, hash, Len(compileRuns) + 1)

compile(hash) == compileCall("compile", hash, 0)

\* execute(hash, inputs): with the module cached it runs to its end (main
\* returns at once, the 10 ms timer cannot win); otherwise it awaits compile
WASMExecutor_execute(hash) ==
  /\ ExecuteCalls < MaxExecutes
  /\ IF hash \in executor.aotCache THEN
       /\ executor' = [executor EXCEPT !.stats.hits = @ + 1]
       /\ UNCHANGED compileRuns
       /\ ExecutorRan("execute", hash, 0)
     ELSE
       compileCall("execute", hash, 1)

\* the _compile call of run r returns its instance.  While the race is
\* pending it resolves: compile's continuation caches the module and deletes
\* the compiling entry, and the execute calls awaiting it count a hit and
\* run main.  After a timeout the instance is dropped.
compileFinishes(r) ==
  /\ compileRuns[r].compile = "running"
  /\ IF compileRuns[r].race = "pending" THEN
       /\ compileRuns' = [compileRuns EXCEPT ![r] =
            [@ EXCEPT !.compile = "done", !.race = "resolved", !.executes = 0]]
       /\ executor' = [executor EXCEPT
            !.aotCache = @ \cup {compileRuns[r].hash},
            !.compiling[compileRuns[r].hash] = 0,
            !.stats.hits = @ + compileRuns[r].executes]
     ELSE
       /\ compileRuns' = [compileRuns EXCEPT ![r].compile = "done"]
       /\ UNCHANGED executor
  /\ ExecutorRan("finish", compileRuns[r].hash, r)

\* the 5 ms timer of withTimeout fires before the _compile call of run r has
\* returned: the race rejects, compile's finally deletes the compiling entry,
\* the execute calls awaiting it count a timeout.  The _compile call goes on.
compileTimesOut(r) ==
  /\ compileRuns[r].race = "pending"
  /\ compileRuns' = [compileRuns EXCEPT ![r] = [@ EXCEPT !.race = "rejected", !.executes = 0]]
  /\ executor' = [executor EXCEPT
       !.compiling[compileRuns[r].hash] = 0,
       !.stats.timeouts = @ + compileRuns[r].executes]
  /\ ExecutorRan("timeout", compileRuns[r].hash, r)

NextExecutor ==
  \/ \E hash \in ModuleHashes : compile(hash)
  \/ \E hash \in ModuleHashes : WASMExecutor_execute(hash)
  \/ \E r \in 1..Len(compileRuns) : compileFinishes(r)
  \/ \E r \in 1..Len(compileRuns) : compileTimesOut(r)

SpecExecutor == Init /\ [][NextExecutor]_vars

\* ---- WASMWorkerPool (src/wasm-canon.js, lines 189-244) ----
\* Workers are numbered in the order of this.workers; their random ids are
\* taken to be distinct.  A request is one call of execute from outside.
Free(p) == { w \in 1..p.size : w \notin p.busy }

\* this.workers.find(w => !this.busy.has(w.id)): the first free worker, 0
\* where find returns undefined
find(p) == IF Free(p) = {} THEN 0 ELSE CHOOSE w \in Free(p) : \A v \in Free(p) : w <= v

\* execute for request r, up to the return of the queued promise or to the
\* await of worker.execute
executeOn(p, r) ==
  IF find(p) = 0
  THEN [p EXCEPT !.queue = Append(@, r)]
  ELSE [p EXCEPT !.busy = @ \cup {find(p)}, !.running[find(p)] = r]

processQueue(p) ==
  IF p.queue = <<>> THEN p
  ELSE IF find(p) = 0 THEN p
  ELSE executeOn([p EXCEPT !.queue = Tail(@)], Head(p.queue))

PoolRan == UNCHANGED <<fastLookupVars, lruInst, lruTrace, analysisVars, executorVars>>

WASMWorkerPool_execute(r) ==
  /\ requests[r] = "new"
  /\ pool' = executeOn(pool, r)
  /\ requests' = [requests EXCEPT ![r] = IF find(pool) = 0 THEN "queued" ELSE "running"]
  /\ PoolRan

\* the 1 ms timer of worker w fires and worker.execute resolves: execute
\* goes on after its await, calls processQueue while w is still in busy,
\* returns the result, and its finally takes w out of busy
workerFinishes(w) ==
  /\ w \in 1..pool.size
  /\ pool.running[w] # 0
  /\ LET served == processQueue(pool)
         dequeued == IF served = pool THEN 0 ELSE Head(pool.queue)
     IN  /\ pool' = [served EXCEPT !.busy = @ \ {w}, !.running[w] = 0]
         /\ requests' = [r \in Requests |->
              IF r = pool.running[w] THEN "done"
              ELSE IF r = dequeued THEN "running"
              ELSE requests[r]]
  /\ PoolRan

InitPool ==
  /\ FastLookupNew
  /\ lruInst = [maxSize |-> CacheSize, cache |-> <<>>]
  /\ lruTrace = <<>>
  /\ AnalysisIdle
  /\ ExecutorIdle
  /\ \E size \in 1..MaxPoolSize : pool = WASMWorkerPoolNew(size)
  /\ requests = [r \in Requests |-> "new"]

NextPool ==
  \/ \E r \in Requests : WASMWorkerPool_execute(r)
  \/ \E w \in 1..MaxPoolSize : workerFinishes(w)

SpecPool == InitPool /\ [][NextPool]_vars

\* every timer that was set fires: a worker that executes a request finishes
SpecPoolFair == SpecPool /\ \A w \in 1..MaxPoolSize : WF_vars(workerFinishes(w))

\* ---- SimpleSemanticHasher (src/ctc-analyzer.js, from line 302) ----
\* hash is a pure function of the code.  The model starts from the AST that
\* acorn.parse and extractFunctionBody hand to normalizeVariables: a function
\* node with its positions left out.  The id of a function declaration is
\* left out as well: extractSignature reads only params and body.
ParamNames == {"a", "b", "x", "y"}
Literals == 1..NumLiterals
Operators == {"+", "-"}
FunctionTypes == {"ArrowFunctionExpression", "FunctionDeclaration"}

Identifier(name) == [type |-> "Identifier", name |-> name]
Literal(value) == [type |-> "Literal", value |-> value]
BinaryExpression(operator, left, right) ==
  [type |-> "BinaryExpression", operator |-> operator, left |-> left, right |-> right]
ReturnStatement(argument) == [type |-> "ReturnStatement", argument |-> argument]
BlockStatement(body) == [type |-> "BlockStatement", body |-> body]

\* (params) => expression, or function f(params) { return expression }
FunctionNode(type, names, expression) ==
  [type |-> type,
   params |-> [i \in 1..Len(names) |-> Identifier(names[i])],
   body |-> IF type = "ArrowFunctionExpression"
            THEN expression
            ELSE BlockStatement(<<ReturnStatement(expression)>>)]

\* parameter lists: module code is strict, no name occurs twice
ParamLists ==
  UNION { { names \in [1..n -> ParamNames] :
              \A i, j \in 1..n : names[i] = names[j] => i = j } : n \in 0..MaxParams }

Binary(operands) ==
  { BinaryExpression(op, l, r) : op \in Operators, l \in operands, r \in operands }

\* expressions of the parameters and the literals, binary expressions nested
\* once
Bodies(names) ==
  LET leaves == { Identifier(names[i]) : i \in 1..Len(names) } \cup
                { Literal(v) : v \in Literals }
      flat == leaves \cup Binary(leaves)
  IN  flat \cup Binary(flat)

\* `$${varCounter++}`
Positional(i) == "$" \o ToString(i)

\* varMap of normalizeVariables: a later parameter of the same name wins
VarMap(params) ==
  [name \in { params[i].name : i \in 1..Len(params) } |->
     Positional(CHOOSE i \in 1..Len(params) :
                  /\ params[i].name = name
                  /\ \A j \in 1..Len(params) : params[j].name = name => j <= i)]

RECURSIVE replaceVariables(_, _)
replaceVariables(node, varMap) ==
  CASE node.type = "Identifier" ->
         IF node.name \in DOMAIN varMap THEN [node EXCEPT !.name = varMap[node.name]]
                                        ELSE node
    [] node.type = "Literal" -> node
    [] node.type = "BinaryExpression" ->
         [node EXCEPT !.left = replaceVariables(node.left, varMap),
                      !.right = replaceVariables(node.right, varMap)]
    [] node.type = "ReturnStatement" ->
         [node EXCEPT !.argument = replaceVariables(node.argument, varMap)]
    [] node.type = "BlockStatement" ->
         [node EXCEPT !.body = [i \in 1..Len(node.body) |->
                                  replaceVariables(node.body[i], varMap)]]
    [] node.type \in FunctionTypes ->
         [node EXCEPT !.params = [i \in 1..Len(node.params) |->
                                    replaceVariables(node.params[i], varMap)],
                      !.body = replaceVariables(node.body, varMap)]

normalizeVariables(node) == replaceVariables(node, VarMap(node.params))

getOperandSignature(node) ==
  CASE node.type = "Identifier" -> node.name
    [] node.type = "Literal" -> "lit:" \o ToString(node.value)
    [] node.type = "BinaryExpression" -> "op:" \o node.operator
    [] OTHER -> node.type

\* extractOperations returns the signature it has filled in
RECURSIVE extractOperations(_, _)
RECURSIVE extractChildren(_, _)
extractOperations(node, signature) ==
  CASE node.type = "BinaryExpression" ->
         LET pushed == [signature EXCEPT !.operations =
                          Append(@, [type |-> "binary", op |-> node.operator,
                                     left |-> getOperandSignature(node.left),
                                     right |-> getOperandSignature(node.right)])]
         IN  extractOperations(node.right, extractOperations(node.left, pushed))
    [] node.type = "ReturnStatement" ->
         extractOperations(node.argument,
                           [signature EXCEPT !.structure = Append(@, "return")])
    [] node.type = "Literal" ->
         [signature EXCEPT !.literals = Append(@, node.value)]
    [] node.type = "BlockStatement" -> extractChildren(node.body, signature)
    [] node.type = "Identifier" -> signature

\* node[key].forEach(child => this.extractOperations(child, signature))
extractChildren(children, signature) ==
  IF children = <<>> THEN signature
  ELSE extractChildren(Tail(children), extractOperations(Head(children), signature))

extractSignature(node) ==
  extractOperations(node.body,
                    [type |-> "function", arity |-> Len(node.params),
                     operations |-> <<>>, literals |-> <<>>, structure |-> <<>>])

isCommutative(op) == op \in {"+", "*", "==", "!=", "===", "!==", "&", "|", "^"}

\* the operand signatures of the programs in the order of their UTF-16 code
\* units, the order of Array.prototype.sort without a comparator
CodeUnitOrder ==
  [i \in 1..MaxParams |-> Positional(i)] \o
  [v \in 1..NumLiterals |-> "lit:" \o ToString(v)] \o
  <<"op:+", "op:-">>

CodeUnitRank(s) == CHOOSE i \in 1..Len(CodeUnitOrder) : CodeUnitOrder[i] = s

\* [op.left, op.right].sort()
sort(pair) ==
  IF CodeUnitRank(pair[2]) < CodeUnitRank(pair[1]) THEN <<pair[2], pair[1]>> ELSE pair

sortCommutative(operations) ==
  [i \in 1..Len(operations) |->
     IF operations[i].type = "binary" /\ isCommutative(operations[i].op)
     THEN [operations[i] EXCEPT !.left = sort(<<operations[i].left, operations[i].right>>)[1],
                                !.right = sort(<<operations[i].left, operations[i].right>>)[2]]
     ELSE operations[i]]

\* the digest of JSON.stringify(signature): equal inputs have equal digests,
\* and the digest is kept as a tagged copy of what was hashed
sha256(hashInput) == [sha256 |-> hashInput]

hash(code) ==
  LET normalized == normalizeVariables(code)
      signature == extractSignature(normalized)
      sorted == IF Len(signature.operations) > 0
                THEN [signature EXCEPT !.operations = sortCommutative(signature.operations)]
                ELSE signature
  IN  [hash |-> sha256(sorted), signature |-> sorted, normalized |-> normalized]

InitHasher ==
  /\ FastLookupNew
  /\ lruInst = [maxSize |-> CacheSize, cache |-> <<>>]
  /\ lruTrace = <<>>
  /\ ctc = CTCAnalyzerNew
  /\ ctcCall = NoAnalysis
  /\ WasmIdle
  /\ \E type \in FunctionTypes, names \in ParamLists :
       \E e \in Bodies(names) :
         hashCall = [code |-> FunctionNode(type, names, e), result |-> NoResult]

hashProgram ==
  /\ hashCall.result = NoResult
  /\ hashCall' = [hashCall EXCEPT !.result = hash(hashCall.code)]
  /\ UNCHANGED <<fastLookupVars, lruInst, lruTrace, ctc, ctcCall, wasmVars>>

NextHasher == hashProgram

SpecHasher == InitHasher /\ [][NextHasher]_vars

\* ---- properties ----
HotKeys == { hotCache.cache[i].key : i \in 1..Len(hotCache.cache) }

Added(k) == index[k] # Null

\* C1: in every reachable state no key is in both the sieve and the
\* negative set.
C1_SieveNegativeDisjoint == sieve \cap negative = {}

\* C2: a get(k) that runs right after add(k, r) returns r at once and starts
\* no fetch.
C2_WriteVisibility ==
  (prev.op = "add" /\ last.op = "get" /\ last.key = prev.key)
    => (last.done /\ last.result = prev.result /\ last.fetches = 0)

C2_Witness ==
  /\ prev.op = "add" /\ last.op = "get" /\ last.key = prev.key
  /\ last.result = prev.result
  /\ stats.notFound > 0

\* C3: once a key has been added, every get of it that completes returns the
\* record of the latest add, on every path and for gets that were suspended
\* at their fetch while add ran.
C3_RecordNeverLost ==
  (last.op \in {"get", "resume"} /\ last.done /\ Added(last.key))
    => last.result = index[last.key]

C3_Witness ==
  /\ last.op = "resume" /\ prev.op = "add" /\ prev.key = last.key
  /\ last.result = prev.result

\* C4: every key in the negative set has no record in the index.
C4_NegativeAuthoritative == \A k \in negative : ~Added(k)

C4_Witness ==
  /\ last.op = "add" /\ prev.op = "get" /\ prev.path = "bloomNegative"
  /\ prev.key = last.key
  /\ last.key \notin negative
  /\ negative # {}

\* C5: every key in the sieve has a record in the index, and the fetch of a
\* get on the sieve path returns a record.
C5_SieveAuthoritative ==
  /\ \A k \in sieve : Added(k)
  /\ (last.op = "resume" /\ last.path = "sieve") => last.result # Null

\* C6: the filter reports every key that was passed to add as possibly
\* present, in every later state.
C6_NoFalseNegatives == \A k \in Keys : Added(k) => mightContain(bloom, k)

C6_Witness ==
  /\ last.op = "clear"
  /\ \E k \in Keys : Added(k) /\ mightContain(bloom, k) /\ k \notin sieve

\* C7: no step clears a bit of the filter.
C7_BitsMonotonic == [][bloom.bits \subseteq bloom'.bits]_vars

C7_Witness ==
  /\ last.op = "clear" /\ prev.op = "preload"
  /\ bloom.bits # {}

\* C8: a get of a key the hot cache holds returns the cached value at once,
\* starts no fetch, leaves sieve, negative set and filter as they were and
\* makes the key the most recently used entry.
C8_HotPriority ==
  [][\A k \in Keys :
       (LRU_has(hotCache, k) /\ last'.op = "get" /\ last'.key = k)
         => /\ last'.done
            /\ last'.result = LRU_peek(hotCache, k)
            /\ last'.fetches = 0 /\ fetchCalls' = fetchCalls
            /\ UNCHANGED <<sieve, negative, bloom, pending>>
            /\ HotKeys' = HotKeys
            /\ hotCache'.cache[Len(hotCache'.cache)] =
                 [key |-> k, value |-> LRU_peek(hotCache, k)]]_vars

C8_Witness ==
  /\ last.op = "get" /\ last.path = "hot"
  /\ Len(hotCache.cache) >= 2
  /\ prev.op \in {"add", "resume"} /\ prev.key # last.key

\* C9: while a key is in the negative set and not in the hot cache, a get of
\* it returns not-found without a fetch and changes no tier, and the key
\* stays so until add of that key or clear is called.
C9_NegativeCheck ==
  [][\A k \in Keys :
       (k \in negative /\ ~LRU_has(hotCache, k))
         => /\ (last'.op = "get" /\ last'.key = k)
                 => /\ last'.done /\ last'.result = Null
                    /\ last'.fetches = 0 /\ fetchCalls' = fetchCalls
                    /\ UNCHANGED <<hotCache, sieve, negative, bloom>>
            /\ (~(last'.op = "add" /\ last'.key = k) /\ last'.op # "clear")
                 => (k \in negative' /\ ~LRU_has(hotCache', k))]_vars

\* C10: a get of a key that is in the sieve and in neither the hot cache nor
\* the negative set starts exactly one fetch; when the fetch completes the
\* get puts the fetched record in the hot cache and returns it.
C10_SieveCheck ==
  [][\A k \in Keys :
       /\ (k \in sieve /\ ~LRU_has(hotCache, k) /\ k \notin negative
             /\ last'.op = "get" /\ last'.key = k)
            => (last'.path = "sieve" /\ last'.fetches = 1
                  /\ fetchCalls' = fetchCalls + 1)
       /\ (last'.op = "resume" /\ last'.path = "sieve" /\ last'.key = k)
            => /\ last'.done /\ fetchCalls' = fetchCalls
               /\ last'.result # Null
               /\ LRU_has(hotCache', k)
               /\ LRU_peek(hotCache', k) = last'.result]_vars

\* the filter has not all the bits of k set
FilterDenies(k) == ~(Bloom_indexes(k) \subseteq bloom.bits)

\* C11: a get of a key that is in none of hot cache, negative set and sieve
\* and that the filter denies returns not-found at once, starts no fetch and
\* adds the key to the negative set; the first get on a fresh FastLookup is
\* such a get.
C11_BloomNegative ==
  [][\A k \in Keys :
       (last'.op = "get" /\ last'.key = k)
         => /\ (~LRU_has(hotCache, k) /\ k \notin negative /\ k \notin sieve
                  /\ FilterDenies(k))
                 => /\ last'.path = "bloomNegative"
                    /\ last'.done /\ last'.result = Null
                    /\ last'.fetches = 0 /\ fetchCalls' = fetchCalls
                    /\ pending' = pending
                    /\ negative' = negative \cup {k}
            /\ (last.op = "new") => last'.path = "bloomNegative"]_vars

C11_Witness ==
  /\ last.op = "get" /\ last.path = "bloomNegative"
  /\ bloom.bits # {}
  /\ last.key \in negative

\* C12: a get of a key that only the filter knows starts exactly one fetch;
\* when the fetch returns a record the key enters the sieve, the record is
\* cached and returned, and a get of the key that runs next is a hot-cache
\* hit without a fetch.
OnlyInFilter(k) ==
  /\ ~LRU_has(hotCache, k) /\ k \notin negative /\ k \notin sieve
  /\ ~FilterDenies(k)

C12_UncertainConfirmed ==
  [][\A k \in Keys :
       /\ (OnlyInFilter(k) /\ last'.op = "get" /\ last'.key = k)
            => (last'.path = "bloom" /\ last'.fetches = 1
                  /\ fetchCalls' = fetchCalls + 1)
       /\ (last'.op = "resume" /\ last'.path = "bloom" /\ last'.key = k
             /\ last'.result # Null)
            => /\ fetchCalls' = fetchCalls
               /\ k \in sieve'
               /\ LRU_has(hotCache', k)
               /\ LRU_peek(hotCache', k) = last'.result
       /\ (last.op = "resume" /\ last.path = "bloom" /\ last.key = k
             /\ last.result # Null /\ last'.op = "get" /\ last'.key = k)
            => (last'.path = "hot" /\ last'.done /\ last'.fetches = 0
                  /\ fetchCalls' = fetchCalls
                  /\ last'.result = last.result)]_vars

C12_Witness ==
  /\ prev.op = "resume" /\ prev.path = "bloom" /\ prev.result # Null
  /\ last.op = "get" /\ last.key = prev.key /\ last.path = "hot"
  /\ last.result = prev.result
  /\ ~Added(last.key)

\* C13: for a key that only the filter knows and the index does not hold,
\* the first get starts one fetch, returns not-found and adds the key to the
\* negative set; a get of the key that follows returns not-found without a
\* fetch.
C13_FalsePositive ==
  [][\A k \in Keys :
       ~Added(k) =>
         /\ (OnlyInFilter(k) /\ last'.op = "get" /\ last'.key = k)
              => (last'.path = "bloom" /\ last'.fetches = 1
                    /\ fetchCalls' = fetchCalls + 1)
         /\ (last'.op = "resume" /\ last'.path = "bloom" /\ last'.key = k)
              => (last'.result = Null /\ k \in negative'
                    /\ fetchCalls' = fetchCalls)
         /\ (last.op = "resume" /\ last.path = "bloom" /\ last.key = k
               /\ last'.op = "get" /\ last'.key = k)
              => (last'.done /\ last'.result = Null /\ last'.fetches = 0)]_vars

\* C14: in the state add(k, r) leaves, all filter bits of k are set, k is in
\* the sieve and not in the negative set, and the hot cache and the index
\* both map k to r.
C14_AddEstablishes ==
  last.op = "add" =>
    /\ Bloom_indexes(last.key) \subseteq bloom.bits
    /\ last.key \in sieve
    /\ last.key \notin negative
    /\ LRU_has(hotCache, last.key)
    /\ LRU_peek(hotCache, last.key) = last.result
    /\ index[last.key] = last.result

C14_Witness ==
  /\ last.op = "add"
  /\ prev.op = "resume" /\ prev.path = "bloom" /\ prev.result = Null
  /\ prev.key = last.key
  /\ index[last.key] = last.result

\* C15: preload leaves the sieve, the negative set, the hot cache and the
\* index as they were.
C15_PreloadFrame ==
  [][last'.op = "preload" => UNCHANGED <<sieve, negative, hotCache, index>>]_vars

C15_Witness ==
  /\ last.op = "preload"
  /\ bloom.itemCount >= 2
  /\ \E k \in Keys : ~FilterDenies(k) /\ k \notin sieve /\ k \notin negative

\* C16: clear leaves the hot cache, the sieve and the negative set empty and
\* the filter (bits and item count) and the index as they were.
C16_ClearFrame ==
  [][last'.op = "clear"
       => /\ hotCache'.cache = <<>> /\ sieve' = {} /\ negative' = {}
          /\ UNCHANGED <<bloom, index>>]_vars

C16_Witness ==
  /\ last.op = "clear"
  /\ prev.op = "get" /\ prev.path = "bloomNegative"
  /\ bloom.itemCount > 0
  /\ \E k \in Keys : Added(k)
  /\ hotCache.cache = <<>> /\ sieve = {} /\ negative = {}

\* the position in lruTrace, up to n, of the last get hit or set of key k
LastTouch(k, n) ==
  LET touches == { i \in 1..n : lruTrace[i].key = k
                                 /\ (lruTrace[i].op = "set" \/ lruTrace[i].hit) }
  IN  IF touches = {} THEN 0 ELSE CHOOSE i \in touches : \A j \in touches : j <= i

\* the last m calls were sets of m different keys
DistinctSets(m) ==
  LET n == Len(lruTrace) IN
  /\ m <= n
  /\ \A i \in (n - m + 1)..n : lruTrace[i].op = "set"
  /\ \A i, j \in (n - m + 1)..n : i # j => lruTrace[i].key # lruTrace[j].key

\* C17: after maxSize + 1 consecutive set calls with different keys, the key
\* of the first of them is not cached and the keys of the others all are.
C17_LRUEviction ==
  LET n == Len(lruTrace)
      m == lruInst.maxSize + 1
  IN  DistinctSets(m) =>
        /\ ~LRU_has(lruInst, lruTrace[n - m + 1].key)
        /\ \A i \in (n - m + 2)..n : LRU_has(lruInst, lruTrace[i].key)
        /\ Len(lruInst.cache) = lruInst.maxSize

C17_Witness ==
  /\ lruInst.maxSize >= 2
  /\ Len(lruTrace) = lruInst.maxSize + 1
  /\ DistinctSets(lruInst.maxSize + 1)
  /\ ~LRU_has(lruInst, lruTrace[1].key)

\* C18: a set of a new key into a full LRU evicts exactly the cached key
\* whose last get hit or set is the oldest; no other call evicts; the cached
\* entries are ordered by their last get hit or set, so a key that was just
\* read or written is the last to go.
C18_RecencyOrder ==
  LET n == Len(lruTrace) IN
  /\ n > 0 =>
       LET e == lruTrace[n] IN
       IF e.op = "set" /\ ~e.hit /\ e.full
       THEN /\ Cardinality(e.evicted) = 1
            /\ \A v \in e.evicted : \A k \in LRU_keys(lruInst) \ {e.key} :
                 LastTouch(v, n - 1) < LastTouch(k, n - 1)
       ELSE e.evicted = {}
  /\ \A i, j \in 1..Len(lruInst.cache) :
       i < j => LastTouch(lruInst.cache[i].key, n) < LastTouch(lruInst.cache[j].key, n)
  /\ (n > 0 /\ (lruTrace[n].op = "set" \/ lruTrace[n].hit))
       => lruInst.cache[Len(lruInst.cache)].key = lruTrace[n].key

C18_Witness ==
  LET n == Len(lruTrace) IN
  /\ n >= 4
  /\ lruTrace[n].op = "set" /\ lruTrace[n].evicted # {}
  /\ lruTrace[n - 1].op = "get" /\ lruTrace[n - 1].hit
  /\ LRU_has(lruInst, lruTrace[n - 1].key)
  /\ lruTrace[n - 1].key # lruTrace[n - 2].key

\* C19: the hot cache keeps the capacity it was built with and never holds
\* more entries than that.
C19_CapacityFixed == Len(hotCache.cache) <= CacheSize

\* C20: a get whose fetch fails changes none of negative set, sieve, filter
\* and hot cache, neither when it starts the fetch nor when the failure
\* arrives; in particular its key is not added to the negative set.
C20_FailedFetchNoPoison ==
  [][((last'.op = "get" /\ ~last'.done) \/ last'.op = "fail")
       => UNCHANGED <<negative, sieve, bloom, hotCache>>]_vars

C20_Witness ==
  /\ last.op = "fail" /\ last.path = "bloom"
  /\ prev.op = "get" /\ prev.key = last.key
  /\ last.key \notin negative
  /\ ~Added(last.key)

\* C21: when the fetch of a get fails, the get ends with the failure, which
\* is neither not-found nor a record, and starts no further fetch.
C21_FailurePropagates ==
  [][last'.op = "fail"
       => /\ last'.done
          /\ last'.result = StoreUnavailable
          /\ last'.result # Null
          /\ last'.fetches = 0 /\ fetchCalls' = fetchCalls
          /\ InFlight' = InFlight - 1]_vars

C21_Witness ==
  /\ last.op = "fail" /\ last.path = "sieve"
  /\ last.result = StoreUnavailable
  /\ fetchCalls = 1 /\ InFlight = 0

\* C22: a get of a key that only the filter knows, called while another get
\* of the same key is suspended at its fetch, starts a fetch of its own, so
\* two fetches of the key are in flight.
C22_NoCoalescing ==
  [][\A k \in Keys :
       (OnlyInFilter(k) /\ pending[k]["bloom"] >= 1
          /\ last'.op = "get" /\ last'.key = k)
         => /\ last'.path = "bloom" /\ last'.fetches = 1
            /\ fetchCalls' = fetchCalls + 1
            /\ pending'[k]["bloom"] = pending[k]["bloom"] + 1]_vars

C22_Witness ==
  \E k \in Keys :
    /\ pending[k]["bloom"] = 2
    /\ last.op = "get" /\ last.key = k /\ last.path = "bloom"
    /\ prev.op = "get" /\ prev.key = k /\ prev.path = "bloom"
    /\ fetchCalls = 2

\* C23: the fetches counter equals the number of fetchFromIndex calls
\* started.
C23_FetchesCounter == stats.fetches = fetchCalls

\* C24: adding a key to the filter again, by a second add of the key or by
\* the re-add of get after the store confirmed it, leaves bits and item
\* count as they were.
C24_FilterAddIdempotent ==
  [][\A k \in Keys :
       (Added(k) /\ last'.key = k
          /\ (last'.op = "add"
                \/ (last'.op = "resume" /\ last'.path = "bloom" /\ last'.result # Null)))
         => bloom' = bloom]_vars

\* C25: no step other than clear removes a key from the sieve.
C25_SievePersists == [][last'.op # "clear" => sieve \subseteq sieve']_vars

C25_Witness ==
  /\ last.op = "resume" /\ last.path = "sieve"
  /\ \E k \in sieve : ~LRU_has(hotCache, k)
  /\ last.key \in sieve

\* C26: once register has stored a function under a hash, every execute of
\* that hash finds it: the lookup never resolves to null for it, whatever
\* register and execute calls ran in between or are still in flight.
C26_RegisteredIsFound ==
  [][\A h \in Keys :
       (Added(h) /\ last'.op \in {"get", "resume"} /\ last'.key = h /\ last'.done)
         => last'.result # Null]_vars

\* three functions were registered, the first one was evicted from the hot
\* cache and an execute of it fetched its record
C26_Witness ==
  /\ bloom.itemCount = 3
  /\ ctc.stats.analyzed = 3
  /\ last.op = "resume" /\ last.path = "sieve"
  /\ last.result = index[last.key]
  /\ last.result # Null

\* the expression a function returns, and the names of its parameters
ExpressionOf(f) ==
  IF f.type = "ArrowFunctionExpression" THEN f.body ELSE f.body.body[1].argument

ParamNamesOf(f) == [i \in 1..Len(f.params) |-> f.params[i].name]

\* the expression e of the parameters `from`, written with the parameters `to`
RECURSIVE Renamed(_, _, _)
Renamed(e, from, to) ==
  CASE e.type = "Identifier" ->
         Identifier(to[CHOOSE i \in 1..Len(from) : from[i] = e.name])
    [] e.type = "Literal" -> e
    [] e.type = "BinaryExpression" ->
         BinaryExpression(e.operator, Renamed(e.left, from, to), Renamed(e.right, from, to))

\* the same expression of the positional parameters in another syntactic
\* form and with other parameter names
Rewritten(f, type, names) ==
  FunctionNode(type, names, Renamed(ExpressionOf(f), ParamNamesOf(f), names))

\* C27: the hash of a function is the hash of every function that computes
\* the same expression of its positional parameters, whatever the names of
\* the parameters and whether it is an arrow function with an expression
\* body or a function declaration with a return statement.
C27_HashIgnoresNamesAndForm ==
  hashCall.result # NoResult =>
    \A type \in FunctionTypes, names \in ParamLists :
      Len(names) = Len(hashCall.code.params) =>
        hash(Rewritten(hashCall.code, type, names)).hash = hashCall.result.hash

\* the expressions got from e by swapping the two operands of one
\* commutative binary operator
CommutativeOperators == {"+", "*", "==", "!=", "===", "!==", "&", "|", "^"}

RECURSIVE Swaps(_)
Swaps(e) ==
  IF e.type # "BinaryExpression" THEN {}
  ELSE (IF e.operator \in CommutativeOperators
        THEN { BinaryExpression(e.operator, e.right, e.left) } ELSE {})
       \cup { BinaryExpression(e.operator, l, e.right) : l \in Swaps(e.left) }
       \cup { BinaryExpression(e.operator, e.left, r) : r \in Swaps(e.right) }

\* C28: swapping the two operands of a commutative binary operator anywhere
\* in the body of a function leaves its hash unchanged.
C28_CommutativeSwap ==
  hashCall.result # NoResult =>
    \A e \in Swaps(ExpressionOf(hashCall.code)) :
      hash(FunctionNode(hashCall.code.type, ParamNamesOf(hashCall.code), e)).hash
        = hashCall.result.hash

\* C29: every call of CTCAnalyzer.analyze returns after at most
\* CTC_MAX_ITERATIONS (5) calls of step, with one result whose type is
\* timeout, loop, fixed or bounded and whose iterations field is at most 5;
\* a run that was not served from the cache leaves that result in the cache.
C29_AnalyzeBounded ==
  ctcCall.result # NoResult =>
    /\ ctcCall.steps <= CTC_MAX_ITERATIONS
    /\ ctcCall.result.type \in {"timeout", "loop", "fixed", "bounded"}
    /\ ctcCall.result.iterations \in 0..CTC_MAX_ITERATIONS
    /\ ctc.cache[ctcCall.funcHash] = ctcCall.result

\* a loop and a fixed point were found, then a run used all five steps
C29_Witness ==
  /\ ctc.stats.loops = 1
  /\ ctc.stats.fixed = 1
  /\ ctcCall.result = [type |-> "bounded", iterations |-> 5]
  /\ ctcCall.steps = 5
  /\ ~ctcCall.cached

\* C31: add is one step.  Every step that changes the index entry of a key
\* is an add of that key, and the state an add leaves, the first state any
\* other call can observe, has all five updates applied: filter bits, sieve,
\* negative set, hot cache and index.
C31_AddAtomic ==
  [][/\ \A k \in Keys : index'[k] # index[k] => (last'.op = "add" /\ last'.key = k)
     /\ last'.op = "add" =>
          /\ Bloom_indexes(last'.key) \subseteq bloom'.bits
          /\ last'.key \in sieve'
          /\ last'.key \notin negative'
          /\ LRU_peek(hotCache', last'.key) = last'.result
          /\ index'[last'.key] = last'.result]_vars

\* add ran while a get of the same key was suspended at its fetch
C31_Witness ==
  /\ last.op = "add"
  /\ prev.op = "get" /\ prev.key = last.key /\ ~prev.done
  /\ pending[last.key]["bloom"] > 0
  /\ index[last.key] = last.result
  /\ last.key \in sieve

\* C32: the step of a get that starts a fetch changes none of the filter,
\* the sieve, the negative set and the hot cache; a get changes them only
\* on a path without a fetch or in the continuation that runs when its
\* fetch has completed.
C32_NoUpdateBeforeFetch ==
  [][(last'.op = "get" /\ (~last'.done \/ last'.fetches > 0))
       => UNCHANGED <<bloom, sieve, negative, hotCache>>]_vars

\* a get on the bloom path is suspended: nothing but the counters moved
C32_Witness ==
  /\ last.op = "get" /\ last.path = "bloom" /\ ~last.done
  /\ pending[last.key]["bloom"] = 1
  /\ last.key \notin sieve /\ last.key \notin negative
  /\ ~LRU_has(hotCache, last.key)
  /\ stats.bloomHits = 1

\* C33: every entry of the hot cache is a record, never the not-found
\* value, and a get served by the hot cache returns a record.
C33_HotCacheHoldsRecords ==
  /\ \A i \in 1..Len(hotCache.cache) : hotCache.cache[i].value # Null
  /\ (last.op = "get" /\ last.path = "hot") => last.result # Null

\* C34: whenever the hot cache maps a key to a record, the index holds that
\* record for the key.
C34_HotCacheFresh ==
  \A i \in 1..Len(hotCache.cache) :
    hotCache.cache[i].value # Null =>
      index[hotCache.cache[i].key] = hotCache.cache[i].value

\* the counter a get increments on each of its paths
PathCounter(st) ==
  [hot |-> st.hotHits, negative |-> st.negativeHits, sieve |-> st.sieveHits,
   bloom |-> st.bloomHits, bloomNegative |-> st.notFound]

\* C35: a get call adds one to lookups and one to the counter of its path
\* (notFound on the bloom-negative path) and to no other of them; the
\* continuation of an uncertain fetch that found nothing adds one to
\* notFound; no other step, clear included, changes a counter.  So lookups
\* is the sum of the four hit counters and the bloom-negative gets, which
\* are at most notFound.
C35_LookupAccounting ==
  [][/\ IF last'.op = "get"
        THEN /\ stats'.lookups = stats.lookups + 1
             /\ \A p \in DOMAIN PathCounter(stats) :
                  PathCounter(stats')[p] =
                    PathCounter(stats)[p] + (IF p = last'.path THEN 1 ELSE 0)
        ELSE IF last'.op = "resume" /\ last'.path = "bloom" /\ last'.result = Null
        THEN stats' = [stats EXCEPT !.notFound = @ + 1]
        ELSE stats' = stats
     /\ LET ended == stats'.lookups - (stats'.hotHits + stats'.negativeHits
                                       + stats'.sieveHits + stats'.bloomHits)
        IN  ended >= 0 /\ ended <= stats'.notFound]_vars

\* no get is in flight; of three gets one ended on the bloom-negative path,
\* one uncertain fetch found nothing, and clear has run since
C35_Witness ==
  /\ InFlight = 0
  /\ last.op = "clear"
  /\ stats.lookups = 3
  /\ stats.notFound = 2
  /\ stats.hotHits + stats.negativeHits + stats.sieveHits + stats.bloomHits = 2

\* C36: a set of a key that is already cached evicts nothing, also when the
\* cache is at capacity: the cached keys stay the same, the other entries
\* keep their values and their order, and the key moves to the most recent
\* position with the new value.
C36_UpdateEvictsNothing ==
  [][LET n == Len(lruTrace') IN
     (n = Len(lruTrace) + 1 /\ lruTrace'[n].op = "set" /\ lruTrace'[n].hit) =>
       /\ lruTrace'[n].evicted = {}
       /\ LRU_keys(lruInst') = LRU_keys(lruInst)
       /\ Len(lruInst'.cache) = Len(lruInst.cache)
       /\ lruInst'.maxSize = lruInst.maxSize
       /\ lruInst'.cache[Len(lruInst'.cache)] =
            [key |-> lruTrace'[n].key, value |-> lruTrace'[n].ret]
       /\ LRU_delete(lruInst'.cache, lruTrace'[n].key) =
            LRU_delete(lruInst.cache, lruTrace'[n].key)]_vars

\* a full cache of two entries: the older key was set again with another
\* value, both keys are still cached
C36_Witness ==
  LET n == Len(lruTrace) IN
  /\ n >= 3
  /\ lruTrace[n].op = "set" /\ lruTrace[n].hit /\ lruTrace[n].full
  /\ Len(lruInst.cache) = 2
  /\ lruTrace[n - 1].op = "set" /\ lruTrace[n - 1].key # lruTrace[n].key
  /\ LRU_has(lruInst, lruTrace[n - 1].key)
  /\ lruTrace[n - 2].key = lruTrace[n].key /\ lruTrace[n - 2].ret # lruTrace[n].ret


\* C37: single-flight compilation.  For each hash at most one _compile run is
\* in progress at any time, also after an earlier compilation of that hash
\* has timed out.
C37_SingleFlight == \A h \in ModuleHashes : Cardinality(Running(h)) <= 1

\* C38: worker-pool liveness.  Every request passed to WASMWorkerPool.execute
\* eventually completes, for every pool size of at least 1; a request queued
\* because all workers were busy is eventually dequeued and run.
C38_PoolLiveness == \A r \in Requests : (requests[r] # "new") ~> (requests[r] = "done")

====
